---- MODULE Spec2Model ----
(***************************************************************************)
(* Model of examples/fastapi-translation/main.py: a FastAPI service with   *)
(* a mock translation endpoint behind an x402 subscription scheme.         *)
(*                                                                         *)
(* The handlers of main.py keep no state of their own.  The model adds the *)
(* wall clock they read (now) and the observable history of the service:   *)
(* the last request and its response, the subscription ids handed out, the *)
(* payment hashes accepted, and the translate requests admitted.           *)
(*                                                                         *)
(* Python strings that the code slices, concatenates or prefix-tests are   *)
(* sequences of one-character strings; Optional[...] values are records    *)
(* [some, v].  Time is counted in calendar months of 2026 (1 = January).   *)
(* The text payload of a translation (translate_text) is not modelled.     *)
(***************************************************************************)
EXTENDS Integers, Sequences, FiniteSets, Bags, TLC

VARIABLES now, req, resp, issued, accepted, admitted

vars == <<now, req, resp, issued, accepted, admitted>>

hist == <<issued, accepted, admitted>>

----------------------------------------------------------------------------
(* Bounds of the model *)

MaxNow == 3

MaxRequests == 11

MaxSubscribes == 2

MaxHashLen == 17

----------------------------------------------------------------------------
(* Python values *)

Some(x) == [some |-> TRUE, v |-> x]

NoneStr == [some |-> FALSE, v |-> <<>>]

NoneInt == [some |-> FALSE, v |-> 0]

\* Python truthiness of an Optional[str]: None and "" are falsy
Truthy(x) == x.some /\ x.v # <<>>

\* s.startswith(p)
StartsWith(s, p) == Len(s) >= Len(p) /\ SubSeq(s, 1, Len(p)) = p

\* s[:n]
Prefix(s, n) == SubSeq(s, 1, IF Len(s) < n THEN Len(s) ELSE n)

Repeat(c, n) == [i \in 1..n |-> c]

S_free == <<"f","r","e","e">>

S_basic == <<"b","a","s","i","c">>

S_pro == <<"p","r","o">>

S_gold == <<"g","o","l","d">>

S_USDC == <<"U","S","D","C">>

----------------------------------------------------------------------------
(* Static data of the handlers *)

\* subscribe: prices = {"basic": "10", "pro": "50"}
prices_pro500 == (S_basic :> <<"1","0">>) @@ (S_pro :> <<"5","0","0">>)

prices_free == (S_basic :> <<"1","0">>) @@ (S_pro :> <<"5","0">>) @@ (S_free :> <<"0">>)

prices == (S_basic :> <<"1","0">>) @@ (S_pro :> <<"5","0">>)

\* get_subscription_status: the mock usage table
usage ==
    (S_free :> [used |-> 5, limit |-> Some(10)])
    @@ (S_basic :> [used |-> 324, limit |-> Some(1000)])
    @@ (S_pro :> [used |-> 5234, limit |-> NoneInt])

\* usage.get(tier, {"used": 0, "limit": 10})
usage_get(tier) ==
    IF tier \in DOMAIN usage THEN usage[tier] ELSE [used |-> 0, limit |-> Some(10)]

\* "2026-02-28T23:59:59Z": the end of month 2 of 2026
ExpiresAt == 2

\* root(): the "subscriptions" part of the document
RootBody ==
    [name |-> "Translation API with x402",
     token |-> S_USDC,
     subscriptions |->
        (S_free :> [price |-> <<"$","0">>,
                    limit |-> <<"1","0"," ","t","r","a","n","s","l","a","t","i","o","n","s",
                                "/","m","o","n","t","h">>])
        @@ (S_basic :> [price |-> <<"$","1","0","/","m","o","n","t","h">>,
                        limit |-> <<"1","0","0","0"," ","t","r","a","n","s","l","a","t","i",
                                    "o","n","s","/","m","o","n","t","h">>])
        @@ (S_pro :> [price |-> <<"$","5","0","/","m","o","n","t","h">>,
                      limit |-> <<"u","n","l","i","m","i","t","e","d">>])]

\* x402_discovery(): the "pricing" part of the document
DiscoveryBody ==
    [name |-> "Translation API",
     token |-> S_USDC,
     model |-> "subscription",
     tiers |->
        (S_basic :> [price |-> <<"1","0">>, currency |-> S_USDC, duration |-> "30d",
                     limits |-> [translations |-> 1000]])
        @@ (S_pro :> [price |-> <<"5","0">>, currency |-> S_USDC, duration |-> "30d",
                      limits |-> [translations |-> -1]])]

\* get_supported_languages()
LanguagesBody ==
    [languages |-> <<"en", "es", "fr", "de", "ja", "zh", "ar", "ru">>]

----------------------------------------------------------------------------
(* Pure functions *)

verify_user_subscription(x_subscription_id) ==
    IF ~Truthy(x_subscription_id) THEN S_free
    ELSE IF StartsWith(x_subscription_id.v, S_basic \o <<"_">>) THEN S_basic
    ELSE IF StartsWith(x_subscription_id.v, S_pro \o <<"_">>) THEN S_pro
    ELSE S_free

\* the id built without the separator: f"{tier}{x_payment_hash[:16]}"
SubscriptionId_no_separator(tier, x_payment_hash) == tier \o Prefix(x_payment_hash, 16)

\* f"{tier}_{x_payment_hash[:16]}"
SubscriptionId(tier, x_payment_hash) == tier \o <<"_">> \o Prefix(x_payment_hash, 16)

\* f"${prices[tier]} USDC"
PriceText(tier) == <<"$">> \o prices[tier] \o <<" ">> \o S_USDC

----------------------------------------------------------------------------
(* Requests and responses *)

Req(op, header, tier, hash) ==
    [op |-> op, at |-> now, header |-> header, tier |-> tier, hash |-> hash]

Resp(status, body) == [status |-> status, body |-> body]

Init ==
    /\ now \in 1..MaxNow
    /\ req = [op |-> "none", at |-> now, header |-> NoneStr, tier |-> NoneStr, hash |-> NoneStr]
    /\ resp = Resp(0, [detail |-> "no request yet"])
    /\ issued = {}
    /\ accepted = EmptyBag
    /\ admitted = EmptyBag

\* the wall clock read by datetime.now()
Tick ==
    /\ now < MaxNow
    /\ now' = now + 1
    /\ UNCHANGED <<req, resp, issued, accepted, admitted>>

root ==
    /\ req' = Req("root", NoneStr, NoneStr, NoneStr)
    /\ resp' = Resp(200, RootBody)
    /\ UNCHANGED <<now, issued, accepted, admitted>>

health_check ==
    /\ req' = Req("health", NoneStr, NoneStr, NoneStr)
    /\ resp' = Resp(200, [status |-> "ok", timestamp |-> now])
    /\ UNCHANGED <<now, issued, accepted, admitted>>

\* get_supported_languages counted as a metered request of the anonymous caller
languages_metered ==
    /\ BagCardinality(admitted) < MaxRequests
    /\ req' = Req("languages", NoneStr, NoneStr, NoneStr)
    /\ resp' = Resp(200, LanguagesBody)
    /\ admitted' = admitted (+) SetToBag({NoneStr})
    /\ UNCHANGED <<now, issued, accepted>>

get_supported_languages ==
    /\ req' = Req("languages", NoneStr, NoneStr, NoneStr)
    /\ resp' = Resp(200, LanguagesBody)
    /\ UNCHANGED <<now, issued, accepted, admitted>>

x402_discovery ==
    /\ req' = Req("x402", NoneStr, NoneStr, NoneStr)
    /\ resp' = Resp(200, DiscoveryBody)
    /\ UNCHANGED <<now, issued, accepted, admitted>>

\* translate with a quota check that applies the free limit to every tier
translate_free_limit(x_subscription_id) ==
    LET subscription_tier == verify_user_subscription(x_subscription_id)
        ok == CopiesIn(x_subscription_id, admitted) < usage[S_free].limit.v
    IN  /\ BagCardinality(admitted) < MaxRequests
        /\ req' = Req("translate", x_subscription_id, NoneStr, NoneStr)
        /\ resp' = IF ok
                   THEN Resp(200, [subscription_tier |-> subscription_tier, timestamp |-> now])
                   ELSE Resp(402, [detail |-> "QuotaExceeded"])
        /\ admitted' = IF ok THEN admitted (+) SetToBag({x_subscription_id}) ELSE admitted
        /\ UNCHANGED <<now, issued, accepted>>

translate(x_subscription_id) ==
    LET subscription_tier == verify_user_subscription(x_subscription_id)
    IN  /\ BagCardinality(admitted) < MaxRequests
        /\ req' = Req("translate", x_subscription_id, NoneStr, NoneStr)
        /\ resp' = Resp(200, [subscription_tier |-> subscription_tier, timestamp |-> now])
        /\ admitted' = admitted (+) SetToBag({x_subscription_id})
        /\ UNCHANGED <<now, issued, accepted>>

get_subscription_status(x_subscription_id) ==
    LET subscription_tier == verify_user_subscription(x_subscription_id)
    IN  /\ req' = Req("status", x_subscription_id, NoneStr, NoneStr)
        /\ resp' = Resp(200, [tier |-> subscription_tier,
                              usage |-> usage_get(subscription_tier),
                              expires |-> IF subscription_tier # S_free
                                          THEN Some(ExpiresAt) ELSE NoneInt])
        /\ UNCHANGED <<now, issued, accepted, admitted>>

\* x_payment_hash is a required header: FastAPI answers 422 when it is absent
subscribe(tier, x_payment_hash) ==
    /\ req' = Req("subscribe", NoneStr, Some(tier), x_payment_hash)
    /\ IF ~x_payment_hash.some
       THEN /\ resp' = Resp(422, [detail |-> "Field required"])
            /\ UNCHANGED <<issued, accepted>>
       ELSE IF tier \notin DOMAIN prices
       THEN /\ resp' = Resp(400, [detail |-> "Invalid tier"])
            /\ UNCHANGED <<issued, accepted>>
       ELSE LET subscription_id == SubscriptionId(tier, x_payment_hash.v)
            IN  /\ BagCardinality(accepted) < MaxSubscribes
                /\ resp' = Resp(200, [success |-> TRUE,
                                      subscription_id |-> subscription_id,
                                      tier |-> tier,
                                      price |-> PriceText(tier),
                                      duration |-> "30 days",
                                      expires |-> ExpiresAt])
                /\ issued' = issued \cup {[id |-> subscription_id, tier |-> tier]}
                /\ accepted' = accepted (+) SetToBag({x_payment_hash.v})
    /\ UNCHANGED <<now, admitted>>

----------------------------------------------------------------------------
(* Inputs *)

PaymentHashes == {<<"a","b">>}

TierInputs == {S_basic, S_pro, S_free}

Headers ==
    {NoneStr} \cup {Some(SubscriptionId(t, h)) : t \in {S_basic, S_pro}, h \in PaymentHashes}

Next ==
    \/ Tick
    \/ root
    \/ health_check
    \/ get_supported_languages
    \/ x402_discovery
    \/ \E x \in Headers : translate(x)
    \/ \E x \in Headers : get_subscription_status(x)
    \/ \E t \in TierInputs, h \in {NoneStr} \cup {Some(p) : p \in PaymentHashes} :
            subscribe(t, h)

Spec == Init /\ [][Next]_vars

\* Payment hashes around the 16-character cut of the subscription id, and hashes
\* that look like tier prefixes
HashLens == {0, 1, 15} \cup (16..MaxHashLen)

WideHashes ==
    {Repeat("a", n) : n \in HashLens}
    \cup {<<"_">>, S_pro \o <<"_">>, S_basic \o <<"_">>}

WideTiers == {S_basic, S_pro, S_free, S_gold, <<>>}

PresentedHeaders ==
    {NoneStr, Some(<<>>), Some(S_gold \o <<"_">>)} \cup {Some(p.id) : p \in issued}

InitRoundTrip == Init /\ now = 1

NextRoundTrip ==
    \/ \E t \in WideTiers, h \in {NoneStr} \cup {Some(p) : p \in WideHashes} :
            subscribe(t, h)
    \/ \E x \in PresentedHeaders : get_subscription_status(x)

SpecRoundTrip == InitRoundTrip /\ [][NextRoundTrip]_vars

----------------------------------------------------------------------------
(* What a response says, read the way a client reads it *)

Lookups == {"translate", "status"}

\* the tier a translate or status response reports
ResolvedTier == IF req.op = "translate" THEN resp.body.subscription_tier ELSE resp.body.tier

\* the request carried an id that a successful subscribe handed out
HasRecord == \E p \in issued : req.header = Some(p.id)

PaidTiers == DOMAIN DiscoveryBody.tiers

DigitValue(c) ==
    CASE c = "0" -> 0 [] c = "1" -> 1 [] c = "2" -> 2 [] c = "3" -> 3 [] c = "4" -> 4
      [] c = "5" -> 5 [] c = "6" -> 6 [] c = "7" -> 7 [] c = "8" -> 8 [] c = "9" -> 9

RECURSIVE LeadingInt(_, _)
LeadingInt(s, acc) ==
    IF s = <<>> \/ Head(s) \notin {"0","1","2","3","4","5","6","7","8","9"}
    THEN acc
    ELSE LeadingInt(Tail(s), 10 * acc + DigitValue(Head(s)))

\* the quota a limit stands for, as an optional number (none: unlimited)
LimitOfRoot(s) ==
    IF s = <<"u","n","l","i","m","i","t","e","d">> THEN NoneInt ELSE Some(LeadingInt(s, 0))

LimitOfDiscovery(n) == IF n = -1 THEN NoneInt ELSE Some(n)

----------------------------------------------------------------------------
(* Claims *)

\* C1: for a bounded tier with limit L (free 10, basic 1000) the number of
\* translate requests admitted for one subscriber never exceeds L.
C1_QuotaNeverExceeded ==
    \A h \in BagToSet(admitted) :
        LET lim == usage_get(verify_user_subscription(h)).limit
        IN  lim.some => CopiesIn(h, admitted) <= lim.v

\* C2: a payment hash is never accepted by subscribe more than once.
C2_HashAcceptedOnce ==
    \A h \in BagToSet(accepted) : CopiesIn(h, accepted) <= 1

\* C3: a lookup whose X-Subscription-Id is absent or was never issued by a
\* successful subscribe resolves to the free tier.
C3_UnknownIdIsFree ==
    (req.op \in Lookups /\ ~HasRecord) => ResolvedTier = S_free

\* C4: a lookup made after the expiry time of the subscriber's paid record
\* resolves to the free tier.
C4_ExpiredIsFree ==
    (req.op \in Lookups /\ HasRecord /\ req.at > ExpiresAt) => ResolvedTier = S_free

\* C5: a subscribe request for a tier that is not a paid tier of the catalog is
\* answered with an error that carries no subscription id, and the step leaves
\* the issued ids, the accepted hashes and the usage counts unchanged.
C5_RejectedSubscribeChangesNothing ==
    [][(req'.op = "subscribe" /\ req'.tier.v \notin PaidTiers)
        => /\ resp'.status \in {400, 422}
           /\ req'.hash.some => resp'.status = 400
           /\ "subscription_id" \notin DOMAIN resp'.body
           /\ UNCHANGED hist]_vars

C5_Witness ==
    /\ req.op = "subscribe"
    /\ req.tier.v \notin PaidTiers
    /\ resp.status = 400
    /\ issued # {}
    /\ admitted # EmptyBag

\* C6: a translate request of a subscriber resolved to the pro tier is never
\* denied, whatever the number of requests already admitted.
C6_ProNeverDenied ==
    (req.op = "translate" /\ verify_user_subscription(req.header) = S_pro)
        => (resp.status = 200 /\ resp.body.subscription_tier = S_pro)

C6_Witness ==
    /\ req.op = "translate"
    /\ verify_user_subscription(req.header) = S_pro
    /\ CopiesIn(req.header, admitted) > usage[S_free].limit.v
    /\ resp.status = 200

\* C7: a discovery or catalog request (root, /.well-known/x402, /api/languages)
\* succeeds, leaves the issued ids, accepted hashes and usage counts unchanged,
\* and returns the same document whatever the state.
C7_DiscoveryIsPure ==
    [][req'.op \in {"root", "x402", "languages"}
        => /\ resp'.status = 200
           /\ UNCHANGED hist
           /\ req.op = req'.op => resp'.body = resp.body
           /\ resp'.body = CASE req'.op = "root" -> RootBody
                             [] req'.op = "x402" -> DiscoveryBody
                             [] req'.op = "languages" -> LanguagesBody]_vars

C7_Witness ==
    /\ req.op = "x402"
    /\ resp.status = 200
    /\ issued # {}
    /\ accepted # EmptyBag
    /\ admitted # EmptyBag

\* C8: the 'used' value reported by subscription status equals the number of
\* translate requests admitted for that subscriber so far.
C8_UsedEqualsAdmitted ==
    req.op = "status" => resp.body.usage.used = CopiesIn(req.header, admitted)

\* C9: the subscription id returned by a successful subscribe(t, h), presented
\* as X-Subscription-Id, resolves to exactly tier t.
C9_RoundTrip ==
    /\ \A p \in issued : verify_user_subscription(Some(p.id)) = p.tier
    /\ req.op = "status" => \A p \in issued : req.header = Some(p.id) => resp.body.tier = p.tier
    /\ (req.op = "subscribe" /\ resp.status = 200)
            => verify_user_subscription(Some(resp.body.subscription_id)) = req.tier.v

C9_Witness ==
    /\ req.op = "status"
    /\ resp.body.tier = S_pro
    /\ \E h \in BagToSet(accepted) :
            /\ Len(h) > 16
            /\ req.header = Some(SubscriptionId(S_pro, h))
    /\ <<>> \in BagToSet(accepted)

\* C10: subscribe accepts exactly the tiers /.well-known/x402 lists, charges the
\* discovery price for each, and the limits shown by root and by subscription
\* status are the discovery limits.
C10_CatalogConsistent ==
    /\ (req.op = "subscribe" /\ req.hash.some)
            => (resp.status = 200 <=> req.tier.v \in PaidTiers)
    /\ (req.op = "subscribe" /\ resp.status = 200)
            => resp.body.price = <<"$">> \o DiscoveryBody.tiers[req.tier.v].price
                                    \o <<" ">> \o DiscoveryBody.tiers[req.tier.v].currency
    /\ (req.op = "status" /\ resp.body.tier \in PaidTiers)
            => resp.body.usage.limit
                    = LimitOfDiscovery(DiscoveryBody.tiers[resp.body.tier].limits.translations)
    /\ req.op = "root"
            => \A t \in PaidTiers :
                    LimitOfRoot(resp.body.subscriptions[t].limit)
                        = LimitOfDiscovery(DiscoveryBody.tiers[t].limits.translations)

C10_Witness ==
    /\ req.op = "subscribe"
    /\ resp.status = 200
    /\ req.tier.v = S_pro
    /\ resp.body.price = <<"$","5","0"," ","U","S","D","C">>

====
